---------------------------- MODULE Spec2Model ----------------------------
(***************************************************************************)
(* A model of the Honey Points strategy (src/userStrategy.ts) and of the   *)
(* sent-token ledger (src/telegramBot.ts).                                 *)
(*                                                                         *)
(* One user id is modelled.  JavaScript objects that are shared by         *)
(* reference (the token objects, the tokens array) are modelled with a     *)
(* heap of token objects and an alias flag for the array, so that a        *)
(* mutation made through one reference is seen through the other.          *)
(*                                                                         *)
(* Numbers: prices, amounts and percentages are integers.  The code's      *)
(* threshold entry * (1 + p / 100) is compared in exact arithmetic         *)
(* (price * 100 >= entry * (100 + p)); for the percentages used here       *)
(* (25, 50, 100: binary fractions) the double computation is exact too.    *)
(* Amounts are carried in hundredths (amount100 = 100 * amount).           *)
(***************************************************************************)
EXTENDS Integers, Sequences, FiniteSets, TLC

(***************************************************************************)
(* Bounds of the model.                                                    *)
(***************************************************************************)
\* settings operations applied in the settings specification
MaxOps == 11
\* price levels above the base price the oracle may quote
PriceSteps == 2
\* clock steps in the ledger specification
MaxTicks == 2
\* ledger operations started in the lock specification
MaxLockOps == 2
\* how far on either side of the two capacity thresholds the ledgers of the
\* capacity specification start
TrimSlack == 2

(***************************************************************************)
(* Program constants.                                                      *)
(***************************************************************************)
\* userStrategy.ts:53  settings.tokens.length >= 10
MaxTokens == 10
\* telegramBot.ts:76 and :112  24 * 60 * 60 * 1000
TTL == 24 * 60 * 60 * 1000
\* telegramBot.ts:120  arr.length >= 3000
TrimAt == 3000
\* telegramBot.ts:121  arr.slice(10)
TrimCount == 10
\* telegramBot.ts:124  arr.length > 6000
HardCap == 6000
\* one write attempt more than the code makes
MaxRetryPlusOne == 3 + 1
\* telegramBot.ts:81 and :129  while (retry < 3)
MaxRetry == 3
\* telegramBot.ts:44  Date.now() - ts > 2000
StaleMs == 2000

\* the value of an optional field that is not set (undefined)
Undefined == -1
\* the outcome of an external call that throws / rejects
Rejects == -2

\* the addresses the trading specification configures: one, since a pass
\* evaluates each token on its own fields, its own price and its own calls
Addrs == {1}
\* the settings specification needs more addresses than the capacity
StoreAddrs == 1..(MaxTokens + 2)
\* object identities: at most MaxTokens objects in the stored array and
\* MaxTokens in the array an evaluation pass still holds
Oids == 1..(2 * MaxTokens)

\* prices the oracle may quote (positive)
Prices == { 100 + 25 * k : k \in 0..PriceSteps }

\* stage plans a token may be configured with: <<profitPercents, soldPercents>>,
\* profit targets ascending; the last plan has no stages (the validation
\* gate rejects it)
Plans == { <<  <<25, 50>>, <<50, 50>>  >>,
           <<  <<25>>,     <<50>>      >>,
           <<  << >>,      << >>       >> }
BuyAmounts == {2}

ErrCapacity  == "Maximum 10 tokens allowed."
ErrDuplicate == "Token already exists in strategy."
ErrWallet    == "Wallet not found"
NoError      == ""

VARIABLES
  users,        \* users[userId]: present, secret, honeySettings (tokens: object ids)
  heap,         \* token objects by identity
  api,          \* the most recent handler call: fn, its address argument, the error thrown
  pc,           \* where executeHoneyStrategy is ("idle": no pass in flight)
  settings,     \* the pass's local `settings` object
  aliased,      \* the pass's settings.tokens is the array stored in users
  idx,          \* position of the for-of iterator over settings.tokens
  stage,        \* the inner loop's i
  currentPrice, \* the pass's currentPrice for the token at idx
  getPrice,     \* the pass's price oracle: address -> price or Rejects
  calls,        \* external calls the pass in flight has issued, in order
  cycle,        \* per token object: bought, and the stages sold since
  passStart,    \* the heap as it was when the pass in flight started
  ops,          \* settings operations applied (settings specification)
  file,         \* the user's sent_tokens file: kind and, for an array, its records
  lock,         \* the payload of the .lock marker (Undefined: no marker)
  now,          \* Date.now()
  ticks,        \* clock steps taken
  procs         \* the ledger operations in flight, one per caller

strategyVars == << users, heap, api, pc, settings, aliased, idx, stage,
                   currentPrice, getPrice, calls, cycle, passStart >>
ledgerVars == << file, lock, now, ticks, procs >>
vars == << strategyVars, ops, ledgerVars >>

passVars == << pc, settings, aliased, idx, stage, currentPrice, getPrice,
               calls, passStart >>

(***************************************************************************)
(* Values.                                                                 *)
(***************************************************************************)
Absent == [present |-> FALSE, secret |-> FALSE, hasSettings |-> FALSE,
           tokens |-> << >>, repeatOnEntry |-> TRUE]

\* a token as the configuration surface creates it
NewToken(address, buyAmount, plan) ==
  [address |-> address, buyAmount |-> buyAmount,
   profitPercents |-> plan[1], soldPercents |-> plan[2],
   lastEntryPrice |-> Undefined, lastSellPrice |-> Undefined,
   finished |-> FALSE, status |-> "undefined",
   currentStage |-> Undefined, lastTxId |-> "undefined"]

NoSettings == [tokens |-> << >>, repeatOnEntry |-> TRUE]
NoCycle == [bought |-> FALSE, sold |-> {}]
Api(fn, arg, error) == [fn |-> fn, arg |-> arg, error |-> error]

\* JavaScript truthiness of an optional number
Falsy(x) == x = Undefined \/ x = 0

RECURSIVE Sum(_)
Sum(s) == IF s = << >> THEN 0 ELSE Head(s) + Sum(Tail(s))

RECURSIVE FilterReversed(_, _, _)
\* a filter that keeps the right tokens but not their order
FilterReversed(s, h, tokenAddress) ==
  IF s = << >> THEN << >>
  ELSE IF h[Head(s)].address # tokenAddress
       THEN FilterReversed(Tail(s), h, tokenAddress) \o << Head(s) >>
       ELSE FilterReversed(Tail(s), h, tokenAddress)

RECURSIVE Filter(_, _, _)
\* Array.prototype.filter with the predicate  t.address !== tokenAddress
Filter(s, h, tokenAddress) ==
  IF s = << >> THEN << >>
  ELSE IF h[Head(s)].address # tokenAddress
       THEN << Head(s) >> \o Filter(Tail(s), h, tokenAddress)
       ELSE Filter(Tail(s), h, tokenAddress)

Range(s) == { s[k] : k \in 1..Len(s) }

\* the objects still referenced by the stored array or by the pass's array
Live(u, st, p) == Range(u.tokens) \cup (IF p = "idle" THEN {} ELSE Range(st.tokens))
Restrict(f, S) == [o \in (DOMAIN f) \cap S |-> f[o]]
FreshOid(h) == CHOOSE o \in Oids \ DOMAIN h : \A q \in Oids \ DOMAIN h : o <= q


NoObjects == [o \in {} |-> NoCycle]
IdleOracle == [a \in Addrs |-> Rejects]

\* the handlers of the configuration surface run between two awaits of a pass
AwaitPoints == {"idle", "getPrice", "autoBuy", "autoSell"}

(***************************************************************************)
(* Strategy store: getHoneySettings / setHoneySettings.                    *)
(* The stored settings are well typed (tokens is an array, repeatOnEntry   *)
(* a boolean), so the two typeof guards of getHoneySettings pass.          *)
(***************************************************************************)
getHoneySettings(u) ==
  IF ~u.present \/ ~u.hasSettings
  THEN [tokens |-> << >>, repeatOnEntry |-> TRUE]
  ELSE [tokens |-> u.tokens, repeatOnEntry |-> u.repeatOnEntry]

setHoneySettings(u, s) ==
  [present |-> TRUE, secret |-> u.secret, hasSettings |-> TRUE,
   tokens |-> s.tokens, repeatOnEntry |-> s.repeatOnEntry]

\* the capacity test with > in place of >=
CapacityReachedOffByOne(s) == Len(s.tokens) > MaxTokens

\* settings.tokens.length >= 10
CapacityReached(s) == Len(s.tokens) >= MaxTokens

\* the duplicate test looking at the first token only
HasAddressFirstOnly(s, h, address) ==
  Len(s.tokens) > 0 /\ h[s.tokens[1]].address = address

\* settings.tokens.some(t => t.address === token.address)
HasAddress(s, h, address) == \E k \in 1..Len(s.tokens) : h[s.tokens[k]].address = address

\* which error addHoneyToken throws for this token ("": none)
AddError(s, h, token) ==
  IF CapacityReached(s) THEN ErrCapacity
  ELSE IF HasAddress(s, h, token.address) THEN ErrDuplicate
  ELSE NoError

addHoneyToken(token) ==
  /\ pc \in AwaitPoints
  /\ LET s == getHoneySettings(users)
         e == AddError(s, heap, token)
         o == FreshOid(heap)
     IN  /\ api' = Api("addHoneyToken", token.address, e)
         /\ IF e # NoError
            THEN UNCHANGED << users, heap, cycle, settings >>
            ELSE /\ heap' = heap @@ (o :> token)
                 /\ cycle' = cycle @@ (o :> NoCycle)
                 \* push mutates the array in place: the pass sees it when
                 \* it iterates that same array
                 /\ users' = setHoneySettings(users, [s EXCEPT !.tokens = Append(@, o)])
                 /\ settings' = IF pc # "idle" /\ aliased
                                THEN [settings EXCEPT !.tokens = Append(@, o)]
                                ELSE settings
  /\ UNCHANGED << pc, aliased, idx, stage, currentPrice, getPrice, calls, passStart >>

\* what removeHoneyToken stores
RemoveResult(u, h, tokenAddress) ==
  LET s == getHoneySettings(u)
  IN  setHoneySettings(u, [s EXCEPT !.tokens = Filter(s.tokens, h, tokenAddress)])

removeHoneyToken(tokenAddress) ==
  /\ pc \in AwaitPoints
  /\ users' = RemoveResult(users, heap, tokenAddress)
  \* filter builds a new array: the pass keeps the old one
  /\ aliased' = FALSE
  /\ heap' = Restrict(heap, Live(users', settings, pc))
  /\ cycle' = Restrict(cycle, Live(users', settings, pc))
  /\ api' = Api("removeHoneyToken", tokenAddress, NoError)
  /\ UNCHANGED << pc, settings, idx, stage, currentPrice, getPrice, calls, passStart >>

resetHoneyTokens ==
  /\ pc \in AwaitPoints
  /\ users' = setHoneySettings(users, NoSettings)
  /\ aliased' = FALSE
  /\ heap' = Restrict(heap, Live(users', settings, pc))
  /\ cycle' = Restrict(cycle, Live(users', settings, pc))
  /\ api' = Api("resetHoneyTokens", 0, NoError)
  /\ UNCHANGED << pc, settings, idx, stage, currentPrice, getPrice, calls, passStart >>


(***************************************************************************)
(* executeHoneyStrategy.  The pass is suspended only at its awaits         *)
(* (getPrice, autoBuy, autoSell); the steps between two awaits run to      *)
(* completion, so the other handlers interleave only at AwaitPoints.       *)
(***************************************************************************)
\* the wallet check without its test of the secret
WalletMissingNoSecretTest(u) == ~u.present

\* !user || !user.secret
WalletMissing(u) == ~u.present \/ ~u.secret

\* the validation gate of line 93 (the address of a modelled token is set)
MissingData(t) ==
  \/ Falsy(t.buyAmount)
  \/ Len(t.profitPercents) = 0
  \/ Len(t.soldPercents) = 0

\* token.currentStage || 0
FirstStage(t) == IF Falsy(t.currentStage) THEN 0 ELSE t.currentStage

\* currentPrice >= target, target = lastEntryPrice * (1 + profitPercents[i] / 100)
ReachesTarget(t, i, price) == price * 100 >= t.lastEntryPrice * (100 + t.profitPercents[i + 1])

\* the last-sell test with >= in place of >
AboveLastSellOrEqual(t, price) == Falsy(t.lastSellPrice) \/ price >= t.lastSellPrice

\* !token.lastSellPrice || currentPrice > token.lastSellPrice
AboveLastSell(t, price) == Falsy(t.lastSellPrice) \/ price > t.lastSellPrice

\* the condition of lines 125-128 for stage i (zero based)
StageFires(t, i, price) == ReachesTarget(t, i, price) /\ AboveLastSell(t, price)

\* 100 * token.buyAmount * (token.soldPercents[i] / 100)
SellAmount100(t, i) == t.buyAmount * t.soldPercents[i + 1]

\* a buy that records the price but not the stage
AfterBuyKeepsStage(t, price, txId) ==
  [t EXCEPT !.lastEntryPrice = price, !.status = "active", !.lastTxId = txId]

\* lines 112-115
AfterBuy(t, price, txId) ==
  [t EXCEPT !.lastEntryPrice = price, !.status = "active",
            !.currentStage = 0, !.lastTxId = txId]

\* a sell that does not record the price it sold at
AfterSellForgetsPrice(t, i, price, txId) ==
  LET u == [t EXCEPT !.currentStage = i + 1, !.lastTxId = txId]
  IN  IF u.currentStage >= Len(u.profitPercents)
      THEN [u EXCEPT !.finished = TRUE, !.status = "sold"]
      ELSE u

\* lines 132-138
AfterSell(t, i, price, txId) ==
  LET u == [t EXCEPT !.lastSellPrice = price, !.currentStage = i + 1, !.lastTxId = txId]
  IN  IF u.currentStage >= Len(u.profitPercents)
      THEN [u EXCEPT !.finished = TRUE, !.status = "sold"]
      ELSE u

\* lines 146-151
RepeatDue(t, s, price) ==
  /\ Sum(t.soldPercents) >= 100
  /\ s.repeatOnEntry
  /\ price <= (IF t.lastEntryPrice = Undefined THEN 0 ELSE t.lastEntryPrice)

\* a reset that leaves the status as it was
ResetTokenKeepsStatus(t) ==
  [t EXCEPT !.finished = FALSE, !.lastEntryPrice = Undefined,
            !.lastSellPrice = Undefined,
            !.currentStage = 0, !.lastTxId = "undefined"]

\* lines 152-157
ResetToken(t) ==
  [t EXCEPT !.finished = FALSE, !.lastEntryPrice = Undefined,
            !.lastSellPrice = Undefined, !.status = "pending",
            !.currentStage = 0, !.lastTxId = "undefined"]

\* an external call as issued, and as settled
Call(fn, address, amount100, i) ==
  [fn |-> fn, address |-> address, amount100 |-> amount100, stage |-> i,
   result |-> "pending"]
Settle(log, result) == [log EXCEPT ![Len(log)].result = result]

\* an iterator that walks the array from its end
CurFromEnd == settings.tokens[Len(settings.tokens) + 1 - idx]

\* the token object the for-of iterator is at
Cur == settings.tokens[idx]

\* a price failure that also forgets the stage
OnPriceErrorDropsStage(t) == [t EXCEPT !.status = "error", !.currentStage = 0]

\* line 105: the catch of a rejected getPrice
OnPriceError(t) == [t EXCEPT !.status = "error"]

\* lines 88-90: the wallet check and the load of the settings
ExecStart(oracle) ==
  /\ pc = "idle"
  /\ IF WalletMissing(users)
     THEN /\ api' = Api("executeHoneyStrategy", 0, ErrWallet)
          /\ UNCHANGED << users, heap, cycle, passVars >>
     ELSE /\ api' = Api("executeHoneyStrategy", 0, NoError)
          /\ settings' = getHoneySettings(users)
          /\ aliased' = (users.present /\ users.hasSettings)
          /\ idx' = 1
          /\ pc' = "loop"
          /\ getPrice' = oracle
          /\ passStart' = heap
          /\ calls' = << >>
          /\ UNCHANGED << users, heap, cycle, stage, currentPrice >>

\* lines 91-103 and 160: the head of the for-of loop
ExecLoop ==
  /\ pc = "loop"
  /\ api' = api
  /\ IF idx > Len(settings.tokens)
     THEN \* the loop is over: setHoneySettings(userId, settings, users)
          /\ users' = setHoneySettings(users, settings)
          /\ heap' = Restrict(heap, Range(settings.tokens))
          /\ cycle' = Restrict(cycle, Range(settings.tokens))
          /\ pc' = "idle"
          /\ settings' = NoSettings
          /\ aliased' = FALSE
          /\ idx' = 0
          /\ stage' = 0
          /\ currentPrice' = Undefined
          /\ getPrice' = IdleOracle
          /\ calls' = << >>
          /\ passStart' = NoObjects
     ELSE /\ UNCHANGED << users, cycle, settings, aliased, stage, currentPrice,
                          getPrice, passStart >>
          /\ IF MissingData(heap[Cur])
             THEN /\ heap' = [heap EXCEPT ![Cur].status = "error"]
                  /\ idx' = idx + 1
                  /\ UNCHANGED << pc, calls >>
             ELSE IF heap[Cur].finished
             THEN /\ heap' = [heap EXCEPT ![Cur].status = "sold"]
                  /\ idx' = idx + 1
                  /\ UNCHANGED << pc, calls >>
             ELSE /\ pc' = "getPrice"
                  /\ calls' = Append(calls, Call("getPrice", heap[Cur].address, 0, 0))
                  /\ UNCHANGED << heap, idx >>

\* lines 103-111 and 123: getPrice settles
ExecGetPrice ==
  /\ pc = "getPrice"
  /\ api' = api
  /\ UNCHANGED << users, cycle, settings, aliased, getPrice, passStart >>
  /\ LET t == heap[Cur]
         r == getPrice[t.address]
     IN  IF r = Rejects
         THEN /\ heap' = [heap EXCEPT ![Cur] = OnPriceError(@)]
              /\ idx' = idx + 1
              /\ pc' = "loop"
              /\ calls' = Settle(calls, "failed")
              /\ UNCHANGED << stage, currentPrice >>
         ELSE /\ currentPrice' = r
              /\ UNCHANGED << heap, idx >>
              /\ IF Falsy(t.lastEntryPrice)
                 THEN /\ pc' = "autoBuy"
                      /\ calls' = Append(Settle(calls, "ok"),
                                         Call("autoBuy", t.address, 100 * t.buyAmount, 0))
                      /\ UNCHANGED stage
                 ELSE /\ pc' = "stages"
                      /\ stage' = FirstStage(t)
                      /\ calls' = Settle(calls, "ok")

\* lines 111-120: autoBuy settles
ExecAutoBuy(ok) ==
  /\ pc = "autoBuy"
  /\ api' = api
  /\ UNCHANGED << users, settings, aliased, getPrice, passStart, stage, currentPrice >>
  /\ idx' = idx + 1
  /\ pc' = "loop"
  /\ calls' = Settle(calls, IF ok THEN "ok" ELSE "failed")
  /\ IF ok
     THEN /\ heap' = [heap EXCEPT ![Cur] = AfterBuy(@, currentPrice, "buyTx")]
          /\ cycle' = [cycle EXCEPT ![Cur] = [bought |-> TRUE, sold |-> {}]]
     ELSE /\ heap' = [heap EXCEPT ![Cur].status = "error"]
          /\ UNCHANGED cycle

\* lines 123-129: the head of the stage loop
ExecStages ==
  /\ pc = "stages"
  /\ api' = api
  /\ UNCHANGED << users, heap, cycle, settings, aliased, getPrice, passStart, idx, currentPrice >>
  /\ LET t == heap[Cur]
     IN  IF stage >= Len(t.profitPercents)
         THEN /\ pc' = "repeat"
              /\ UNCHANGED << stage, calls >>
         ELSE IF StageFires(t, stage, currentPrice)
         THEN /\ pc' = "autoSell"
              /\ calls' = Append(calls, Call("autoSell", t.address, SellAmount100(t, stage), stage))
              /\ UNCHANGED stage
         ELSE /\ stage' = stage + 1
              /\ UNCHANGED << pc, calls >>

\* lines 131-142: autoSell settles; either way the loop goes on to i + 1
ExecAutoSell(ok) ==
  /\ pc = "autoSell"
  /\ api' = api
  /\ UNCHANGED << users, settings, aliased, getPrice, passStart, idx, currentPrice >>
  /\ stage' = stage + 1
  /\ pc' = "stages"
  /\ calls' = Settle(calls, IF ok THEN "ok" ELSE "failed")
  /\ IF ok
     THEN /\ heap' = [heap EXCEPT ![Cur] = AfterSell(@, stage, currentPrice, "sellTx")]
          /\ cycle' = [cycle EXCEPT ![Cur].sold = @ \cup {stage}]
     ELSE /\ heap' = [heap EXCEPT ![Cur].status = "error"]
          /\ UNCHANGED cycle

\* lines 146-158: repeat on entry
ExecRepeat ==
  /\ pc = "repeat"
  /\ api' = api
  /\ UNCHANGED << users, cycle, settings, aliased, getPrice, passStart, stage, currentPrice, calls >>
  /\ idx' = idx + 1
  /\ pc' = "loop"
  /\ IF RepeatDue(heap[Cur], settings, currentPrice)
     THEN heap' = [heap EXCEPT ![Cur] = ResetToken(@)]
     ELSE UNCHANGED heap

(***************************************************************************)
(* The sent-token ledger: lockFile, unlockFile, readSentHashes,            *)
(* appendSentHash (src/telegramBot.ts).  One user's file is modelled.      *)
(* A digest is a positive integer; 0 stands for a missing or empty hash.   *)
(***************************************************************************)
Procs == {1, 2}
\* the digests the callers append
Hashes == {1, 2}
TickSteps == {1, TTL - 1}

Missing  == [kind |-> "missing",  arr |-> << >>]
Garbage  == [kind |-> "garbage",  arr |-> << >>]   \* not JSON: JSON.parse throws
NotArray == [kind |-> "notArray", arr |-> << >>]   \* JSON, but not an array
ArrayFile(arr) == [kind |-> "array", arr |-> arr]

Record(hash, ts) == [hash |-> hash, ts |-> ts]

\* the expiry test with <= in place of <
IsFreshInclusive(obj, t) == obj.hash # 0 /\ t - obj.ts <= TTL

\* obj && obj.hash && (now - (obj.ts || 0) < 24 * 60 * 60 * 1000)
IsFresh(obj, t) == obj.hash # 0 /\ t - obj.ts < TTL

\* arr.filter(...) of lines 76 and 112
Prune(arr, t) == SelectSeq(arr, LAMBDA obj : IsFresh(obj, t))

\* the duplicate test looking at the newest record only
HasHashLastOnly(arr, hash) == Len(arr) > 0 /\ arr[Len(arr)].hash = hash

\* a duplicate test that never finds the digest
HasHashNever(arr, hash) == FALSE

\* arr.some(obj => obj.hash === hash)
HasHash(arr, hash) == \E k \in 1..Len(arr) : arr[k].hash = hash

\* valid.map(obj => obj.hash), as the Set the caller gets
HashSet(arr) == { arr[k].hash : k \in 1..Len(arr) }

\* the capacity policy with > in place of >= at the first threshold
TrimAboveOnly(arr) ==
  LET a == IF Len(arr) > TrimAt THEN SubSeq(arr, TrimCount + 1, Len(arr)) ELSE arr
  IN  IF Len(a) > HardCap THEN SubSeq(a, Len(a) - HardCap + 1, Len(a)) ELSE a

\* lines 120-126: the capacity policy
Trim(arr) ==
  LET a == IF Len(arr) >= TrimAt THEN SubSeq(arr, TrimCount + 1, Len(arr)) ELSE arr
  IN  IF Len(a) > HardCap THEN SubSeq(a, Len(a) - HardCap + 1, Len(a)) ELSE a

\* lines 118-126: what appendSentHash is about to write
Appended(arr, hash, t) == Trim(Append(arr, Record(hash, t)))

IdleProc == [pc |-> "idle", op |-> "none", hash |-> 0, toWrite |-> << >>,
             retry |-> 0, result |-> {}, outcome |-> "none"]

\* unlockFile: the marker is removed whoever wrote it
Unlocked == Undefined

\* a return that leaves the marker in place
FinishKeepsLock(p, outcome, result) ==
  /\ lock' = lock
  /\ procs' = [procs EXCEPT ![p].pc = "done", ![p].outcome = outcome,
                            ![p].result = result, ![p].toWrite = << >>]

\* the operation returns: unlockFile(file), then the promise resolves
Finish(p, outcome, result) ==
  /\ lock' = Unlocked
  /\ procs' = [procs EXCEPT ![p].pc = "done", ![p].outcome = outcome,
                            ![p].result = result, ![p].toWrite = << >>]

\* the caller starts readSentHashes(userId)
readSentHashes(p) ==
  /\ procs[p].pc = "idle"
  /\ procs' = [procs EXCEPT ![p] = [IdleProc EXCEPT !.pc = "lock", !.op = "read"]]
  /\ UNCHANGED << file, lock, now, ticks >>

\* the caller starts appendSentHash(userId, hash)
appendSentHash(p, hash) ==
  /\ procs[p].pc = "idle"
  /\ procs' = [procs EXCEPT ![p] = [IdleProc EXCEPT !.pc = "lock", !.op = "append",
                                                     !.hash = hash]]
  /\ UNCHANGED << file, lock, now, ticks >>

\* lines 36-47: one run of tryLock
lockFile(p) ==
  /\ procs[p].pc = "lock"
  /\ IF lock = Undefined
     THEN /\ lock' = now
          /\ procs' = [procs EXCEPT ![p].pc = "settle"]
     ELSE /\ lock' = IF now - lock > StaleMs THEN Undefined ELSE lock
          /\ UNCHANGED procs
  /\ UNCHANGED << file, now, ticks >>

\* lines 81-90 and 129-138: one writeFileSync of the retry loop
WriteOnce(p, arr, ok, outcome, result) ==
  IF ok
  THEN /\ file' = ArrayFile(arr)
       /\ Finish(p, outcome, result)
  ELSE /\ procs' = [procs EXCEPT ![p].pc = "sleep", ![p].retry = @ + 1,
                                 ![p].toWrite = arr, ![p].result = result,
                                 ![p].outcome = outcome]
       /\ UNCHANGED << file, lock >>

\* lines 67-97: the body of readSentHashes up to its first await or its return
ReadBody(p, ok) ==
  LET arr == file.arr
      valid == Prune(arr, now)
  IN  IF file.kind = "garbage"
      THEN Finish(p, "unreadable", {}) /\ UNCHANGED file
      ELSE IF Len(valid) # Len(arr)
      THEN WriteOnce(p, valid, ok, "pruned", HashSet(valid))
      ELSE Finish(p, "clean", HashSet(valid)) /\ UNCHANGED file

\* lines 104-142: the body of appendSentHash up to its first await or its return
AppendBody(p, ok) ==
  LET arr == Prune(file.arr, now)
  IN  IF file.kind = "garbage"
      THEN Finish(p, "unreadable", {}) /\ UNCHANGED file
      ELSE IF HasHash(arr, procs[p].hash)
      THEN Finish(p, "duplicate", {}) /\ UNCHANGED file
      ELSE WriteOnce(p, Appended(arr, procs[p].hash, now), ok, "appended", {})

\* lockFile resolves (setTimeout(resolve, 10)) and the operation runs
Settled(p, ok) ==
  /\ procs[p].pc = "settle"
  /\ IF procs[p].op = "read" THEN ReadBody(p, ok) ELSE AppendBody(p, ok)
  /\ UNCHANGED << now, ticks >>

\* the backoff of a failed write is over: the loop tries again or gives up
Wake(p, ok) ==
  /\ procs[p].pc = "sleep"
  /\ IF procs[p].retry < MaxRetry
     THEN WriteOnce(p, procs[p].toWrite, ok, procs[p].outcome, procs[p].result)
     ELSE Finish(p, "unwritten", procs[p].result) /\ UNCHANGED file
  /\ UNCHANGED << now, ticks >>

\* the caller has taken the result
Return(p) ==
  /\ procs[p].pc = "done"
  /\ procs' = [procs EXCEPT ![p] = IdleProc]
  /\ UNCHANGED << file, lock, now, ticks >>

Tick(d) ==
  /\ ticks < MaxTicks
  /\ now' = now + d
  /\ ticks' = ticks + 1
  /\ UNCHANGED << file, lock, procs >>

InitLedger ==
  /\ file = Missing
  /\ lock = Undefined
  /\ now = 0
  /\ ticks = 0
  /\ procs = [p \in Procs |-> IdleProc]

InitLedgerFiles ==
  /\ file \in {Missing, Garbage, NotArray}
  /\ lock = Undefined
  /\ now = 0
  /\ ticks = 0
  /\ procs = [p \in Procs |-> IdleProc]

NextLedger ==
  \/ \E d \in TickSteps : Tick(d) /\ UNCHANGED << strategyVars, ops >>
  \/ \E p \in Procs : readSentHashes(p) /\ UNCHANGED << strategyVars, ops >>
  \/ \E p \in Procs, h \in Hashes : appendSentHash(p, h) /\ UNCHANGED << strategyVars, ops >>
  \/ \E p \in Procs : lockFile(p) /\ UNCHANGED << strategyVars, ops >>
  \/ \E p \in Procs, ok \in BOOLEAN : Settled(p, ok) /\ UNCHANGED << strategyVars, ops >>
  \/ \E p \in Procs, ok \in BOOLEAN : Wake(p, ok) /\ UNCHANGED << strategyVars, ops >>
  \/ \E p \in Procs : Return(p) /\ UNCHANGED << strategyVars, ops >>

(***************************************************************************)
(* The trading specification: the configuration surface and passes of      *)
(* executeHoneyStrategy for one user, over the addresses Addrs.            *)
(***************************************************************************)
InitUsers ==
  {Absent} \cup
  { [present |-> TRUE, secret |-> sec, hasSettings |-> hs,
     tokens |-> << >>, repeatOnEntry |-> r] :
       sec \in BOOLEAN, hs \in BOOLEAN, r \in BOOLEAN }

InitPass ==
  /\ pc = "idle"
  /\ settings = NoSettings
  /\ aliased = FALSE
  /\ idx = 0
  /\ stage = 0
  /\ currentPrice = Undefined
  /\ getPrice = IdleOracle
  /\ calls = << >>
  /\ passStart = NoObjects

Init ==
  /\ users \in InitUsers
  /\ heap = NoObjects
  /\ cycle = NoObjects
  /\ api = Api("none", 0, NoError)
  /\ InitPass
  /\ ops = 0
  /\ InitLedger

Next ==
  \/ \E a \in Addrs, b \in BuyAmounts, p \in Plans :
       addHoneyToken(NewToken(a, b, p)) /\ UNCHANGED << ops, ledgerVars >>
  \/ \E a \in Addrs : removeHoneyToken(a) /\ UNCHANGED << ops, ledgerVars >>
  \/ resetHoneyTokens /\ UNCHANGED << ops, ledgerVars >>
  \/ \E oracle \in [Addrs -> Prices \cup {Rejects}] :
       ExecStart(oracle) /\ UNCHANGED << ops, ledgerVars >>
  \/ ExecLoop /\ UNCHANGED << ops, ledgerVars >>
  \/ ExecGetPrice /\ UNCHANGED << ops, ledgerVars >>
  \/ \E ok \in BOOLEAN : ExecAutoBuy(ok) /\ UNCHANGED << ops, ledgerVars >>
  \/ ExecStages /\ UNCHANGED << ops, ledgerVars >>
  \/ \E ok \in BOOLEAN : ExecAutoSell(ok) /\ UNCHANGED << ops, ledgerVars >>
  \/ ExecRepeat /\ UNCHANGED << ops, ledgerVars >>

Spec == Init /\ [][Next]_vars


(***************************************************************************)
(* The ledger specification: two callers, a clock, writes that may fail.   *)
(***************************************************************************)
InitStrategy ==
  /\ users = Absent
  /\ heap = NoObjects
  /\ cycle = NoObjects
  /\ api = Api("none", 0, NoError)
  /\ InitPass
  /\ ops = 0

\* no strategy activity, and the ledger file in any of its starting forms
InitSent ==
  /\ InitStrategy
  /\ InitLedgerFiles

SpecLedger == InitSent /\ [][NextLedger]_vars


(***************************************************************************)
(* The order specification: passes over a list of up to two tokens, which  *)
(* may grow while a pass is suspended at an await.                         *)
(***************************************************************************)
OrderAddrs == {1, 2}
OrderPrices == {100, 150}
OrderPlan == << <<25, 50>>, <<50, 50>> >>

NextOrder ==
  \/ \E a \in OrderAddrs :
       addHoneyToken(NewToken(a, 2, OrderPlan)) /\ UNCHANGED << ops, ledgerVars >>
  \/ \E oracle \in [OrderAddrs -> OrderPrices \cup {Rejects}] :
       ExecStart(oracle) /\ UNCHANGED << ops, ledgerVars >>
  \/ ExecLoop /\ UNCHANGED << ops, ledgerVars >>
  \/ ExecGetPrice /\ UNCHANGED << ops, ledgerVars >>
  \/ \E ok \in BOOLEAN : ExecAutoBuy(ok) /\ UNCHANGED << ops, ledgerVars >>
  \/ ExecStages /\ UNCHANGED << ops, ledgerVars >>
  \/ \E ok \in BOOLEAN : ExecAutoSell(ok) /\ UNCHANGED << ops, ledgerVars >>
  \/ ExecRepeat /\ UNCHANGED << ops, ledgerVars >>

SpecOrder == Init /\ [][NextOrder]_vars


(***************************************************************************)
(* The lock specification: the callers are separate processes, so the two  *)
(* file system calls of tryLock (existsSync at line 37, writeFileSync at   *)
(* line 38) are two steps, and a lock marker may have been left behind by  *)
(* a process that exited between lockFile and unlockFile.  The clock       *)
(* advances while a caller waits for its retry timer (line 46), which      *)
(* fires after 20 ms or later: here after a second, so that a marker is    *)
(* seen at exactly 2 seconds of age (kept) and at 3 (removed).  A pending  *)
(* callback of a live process is eventually run (weak fairness of each     *)
(* caller's steps).                                                        *)
(***************************************************************************)
RetryDelays == {1000}

\* the test of line 44 with the limit a second later
IsStaleLater(ts, t) == t - ts > StaleMs + 1000

\* Date.now() - ts > 2000
IsStale(ts, t) == t - ts > StaleMs

\* lines 37 and 40-46: tryLock looks for the marker
tryLock(p) ==
  /\ procs[p].pc = "lock"
  /\ IF lock = Undefined
     THEN /\ procs' = [procs EXCEPT ![p].pc = "write"]
          /\ UNCHANGED lock
     ELSE /\ lock' = IF IsStale(lock, now) THEN Undefined ELSE lock
          /\ procs' = [procs EXCEPT ![p].pc = "retry"]
  /\ UNCHANGED << file, now, ticks >>

\* lines 38-39: tryLock writes the marker
writeLock(p) ==
  /\ procs[p].pc = "write"
  /\ lock' = now
  /\ procs' = [procs EXCEPT ![p].pc = "settle"]
  /\ UNCHANGED << file, now, ticks >>

\* line 46: the retry timer fires, d ms later
retryLock(p, d) ==
  /\ procs[p].pc = "retry"
  /\ now' = now + d
  /\ procs' = [procs EXCEPT ![p].pc = "lock"]
  /\ UNCHANGED << file, lock, ticks >>

\* the steps of caller p once its operation has started
ProcStep(p) ==
  \/ tryLock(p)
  \/ writeLock(p)
  \/ \E d \in RetryDelays : retryLock(p, d)
  \/ \E ok \in BOOLEAN : Settled(p, ok)
  \/ \E ok \in BOOLEAN : Wake(p, ok)
  \/ Return(p)

InitLock ==
  /\ InitStrategy
  /\ file = Missing
  /\ lock \in {Undefined, 0}
  /\ now = 0
  /\ ticks = 0
  /\ procs = [p \in Procs |-> IdleProc]

NextLock ==
  \/ \E p \in Procs :
       /\ ops < MaxLockOps
       /\ ops' = ops + 1
       /\ readSentHashes(p)
       /\ UNCHANGED strategyVars
  \/ \E p \in Procs, h \in Hashes :
       /\ ops < MaxLockOps
       /\ ops' = ops + 1
       /\ appendSentHash(p, h)
       /\ UNCHANGED strategyVars
  \/ \E p \in Procs : tryLock(p) /\ UNCHANGED << strategyVars, ops >>
  \/ \E p \in Procs : writeLock(p) /\ UNCHANGED << strategyVars, ops >>
  \/ \E p \in Procs, d \in RetryDelays : retryLock(p, d) /\ UNCHANGED << strategyVars, ops >>
  \/ \E p \in Procs, ok \in BOOLEAN : Settled(p, ok) /\ UNCHANGED << strategyVars, ops >>
  \/ \E p \in Procs, ok \in BOOLEAN : Wake(p, ok) /\ UNCHANGED << strategyVars, ops >>
  \/ \E p \in Procs : Return(p) /\ UNCHANGED << strategyVars, ops >>

SpecLock ==
  /\ InitLock
  /\ [][NextLock]_vars
  /\ \A p \in Procs : WF_vars(ProcStep(p) /\ UNCHANGED << strategyVars, ops >>)


(***************************************************************************)
(* The capacity specification: one caller appends to a ledger whose length *)
(* is near one of the two thresholds of lines 120 and 124.  A ledger of    *)
(* just under 3000 records is what that many appends leave; a longer one   *)
(* is a file found on disk (appendSentHash reads whatever the file holds). *)
(* The records are unexpired and carry digests other than the appended.    *)
(***************************************************************************)
BigFile(n) == ArrayFile([k \in 1..n |-> Record(k + 2, 0)])

TrimLengths ==
  (0..TrimSlack)
  \cup ((TrimAt - 1 - TrimSlack)..(TrimAt - 1 + TrimSlack))
  \cup ((HardCap + TrimCount - 1 - TrimSlack)..(HardCap + TrimCount - 1 + TrimSlack))

InitTrim ==
  /\ InitStrategy
  /\ file \in { BigFile(n) : n \in TrimLengths }
  /\ lock = Undefined
  /\ now = 0
  /\ ticks = 0
  /\ procs = [p \in Procs |-> IdleProc]

NextTrim ==
  \/ \E h \in Hashes : appendSentHash(1, h) /\ UNCHANGED << strategyVars, ops >>
  \/ lockFile(1) /\ UNCHANGED << strategyVars, ops >>
  \/ \E ok \in BOOLEAN : Settled(1, ok) /\ UNCHANGED << strategyVars, ops >>
  \/ \E ok \in BOOLEAN : Wake(1, ok) /\ UNCHANGED << strategyVars, ops >>
  \/ Return(1) /\ UNCHANGED << strategyVars, ops >>

SpecTrim == InitTrim /\ [][NextTrim]_vars


(***************************************************************************)
(* The settings specification: add / remove / reset from no settings, up   *)
(* to the capacity.  The code only compares addresses for equality, so a   *)
(* new address is always taken to be the smallest one not in the list      *)
(* (any other choice is the same run with the addresses renamed).          *)
(***************************************************************************)
StoredAddresses == { heap[o].address : o \in Range(getHoneySettings(users).tokens) }
UnusedAddress ==
  CHOOSE a \in StoreAddrs \ StoredAddresses : \A b \in StoreAddrs \ StoredAddresses : a <= b
AddressInputs == StoredAddresses \cup {UnusedAddress}
StorePlan == << <<25, 50>>, <<50, 50>> >>

NextStore ==
  \/ \E a \in AddressInputs :
       /\ ops < MaxOps
       /\ ops' = ops + 1
       /\ addHoneyToken(NewToken(a, 2, StorePlan))
       /\ UNCHANGED ledgerVars
  \/ \E a \in AddressInputs :
       /\ ops < MaxOps
       /\ ops' = ops + 1
       /\ removeHoneyToken(a)
       /\ UNCHANGED ledgerVars
  \/ /\ ops < MaxOps
     /\ ops' = ops + 1
     /\ resetHoneyTokens
     /\ UNCHANGED ledgerVars

SpecStore == Init /\ [][NextStore]_vars


(***************************************************************************)
(* Properties of the trading engine (checked under Spec).                  *)
(***************************************************************************)
\* the pass in flight completes with this step (line 160 has run)
PassCompletes == pc = "loop" /\ pc' = "idle"

\* the token is as repeat-on-entry leaves it
IsRearmed(t) ==
  /\ t.status = "pending"
  /\ t.currentStage = 0
  /\ t.finished = FALSE
  /\ t.lastEntryPrice = Undefined
  /\ t.lastSellPrice = Undefined

\* C1: a token that is fully sold (finished, status 'sold', a plan that
\* sells 100%) when a pass starts, with repeatOnEntry on, is re-armed by
\* that pass when the price the pass's lookup gives for it is at or below
\* its entry price: when the pass completes the token is pending, at stage
\* 0, not finished, with entryPrice and lastSellPrice cleared.
C1_RepeatCycle ==
  [][ PassCompletes =>
        \A o \in Range(settings.tokens) \cap DOMAIN passStart :
          ( /\ passStart[o].finished
            /\ Sum(passStart[o].soldPercents) >= 100
            /\ passStart[o].status = "sold"
            /\ settings.repeatOnEntry
            /\ getPrice[passStart[o].address] # Rejects
            /\ getPrice[passStart[o].address] <= passStart[o].lastEntryPrice )
          => IsRearmed(heap'[o]) ]_vars

\* the stage condition in the specification's words, for stage i (zero based)
\* of token t at this price
SpecStageFires(t, i, price) ==
  /\ price * 100 >= t.lastEntryPrice * (100 + t.profitPercents[i + 1])
  /\ (t.lastSellPrice = Undefined \/ price > t.lastSellPrice)

\* this step issues an autoSell call
SellIssued == Len(calls') = Len(calls) + 1 /\ calls'[Len(calls')].fn = "autoSell"

\* C2: in a pass where the token has an entry price, the stages are visited
\* from currentStage to the last one; autoSell is called for stage i exactly
\* when the price reaches the stage's target and lastSellPrice is unset or
\* below the price at that moment, with amount buyAmount * soldPercents[i] /
\* 100; a successful sale sets lastSellPrice to the price and currentStage to
\* i + 1; a price equal to lastSellPrice never fires a stage.
C2_StageFiring ==
  /\ [][ (pc = "getPrice" /\ pc' = "stages") =>
           stage' = (IF heap[Cur].currentStage = Undefined THEN 0 ELSE heap[Cur].currentStage) ]_vars
  /\ [][ (pc \in {"stages", "autoSell"} /\ pc' = "stages") => stage' = stage + 1 ]_vars
  /\ [][ (pc = "stages" /\ pc' = "repeat") => stage >= Len(heap[Cur].profitPercents) ]_vars
  /\ [][ SellIssued <=>
           ( /\ pc = "stages"
             /\ stage < Len(heap[Cur].profitPercents)
             /\ SpecStageFires(heap[Cur], stage, currentPrice) ) ]_vars
  /\ [][ SellIssued =>
           /\ calls'[Len(calls')].address = heap[Cur].address
           /\ calls'[Len(calls')].stage = stage
           /\ calls'[Len(calls')].amount100 = heap[Cur].buyAmount * heap[Cur].soldPercents[stage + 1]
           /\ currentPrice # heap[Cur].lastSellPrice ]_vars
  /\ [][ (pc = "autoSell" /\ calls'[Len(calls')].result = "ok") =>
           /\ heap'[Cur].lastSellPrice = currentPrice
           /\ heap'[Cur].currentStage = stage + 1 ]_vars

\* C2 witness: stage 0 was sold in this pass at a price that also reaches
\* the target of stage 1, and stage 1 did not fire: the price equals
\* lastSellPrice
C2_Witness ==
  /\ pc = "repeat"
  /\ Len(heap[Cur].profitPercents) = 2
  /\ heap[Cur].currentStage = 1
  /\ heap[Cur].lastSellPrice = currentPrice
  /\ currentPrice * 100 >= heap[Cur].lastEntryPrice * (100 + heap[Cur].profitPercents[2])
  /\ calls[Len(calls)].fn = "autoSell"
  /\ calls[Len(calls)].stage = 0
  /\ calls[Len(calls)].result = "ok"

\* C3: a token is finished only when every stage 0..length-1 has been sold
\* (a successful autoSell) since its purchase.
C3_FinishedAllSold ==
  \A o \in DOMAIN heap :
    heap[o].finished => cycle[o].sold = 0..(Len(heap[o].profitPercents) - 1)

\* C4: a pass resets a token (clears its entry price, status 'pending',
\* stage 0) only when the token was finished, and autoBuy is never called
\* for a token whose previous purchase has not been sold in all its stages.
C4_RearmOnlyFinished ==
  /\ [][ (pc = "repeat" /\ heap[Cur].lastEntryPrice # Undefined
                        /\ heap'[Cur].lastEntryPrice = Undefined)
           => heap[Cur].finished ]_vars
  /\ [][ (Len(calls') = Len(calls) + 1 /\ calls'[Len(calls')].fn = "autoBuy")
           => ( cycle[Cur].bought =>
                  cycle[Cur].sold = 0..(Len(heap[Cur].profitPercents) - 1) ) ]_vars

\* this step is a call of executeHoneyStrategy
ExecuteCalled == pc = "idle" /\ api'.fn = "executeHoneyStrategy"

\* C8: executeHoneyStrategy for a user that is absent or has no secret
\* throws 'Wallet not found' at once: no pass starts, no external call is
\* issued, no token changes and the settings are not written.
C8_WalletNotFound ==
  [][ (ExecuteCalled /\ (~users.present \/ ~users.secret)) =>
        /\ api'.error = ErrWallet
        /\ pc' = "idle"
        /\ calls' = << >>
        /\ heap' = heap
        /\ users' = users ]_vars

\* C8 witness: the call was refused for a user that has tokens but no secret
C8_Witness ==
  /\ api = Api("executeHoneyStrategy", 0, ErrWallet)
  /\ users.present /\ ~users.secret
  /\ Len(users.tokens) > 0
  /\ pc = "idle"


(***************************************************************************)
(* Properties of the strategy store (checked under SpecStore).             *)
(***************************************************************************)
\* the addresses of the user's token list, in the order of the list
AddressSeq ==
  [k \in 1..Len(getHoneySettings(users).tokens) |->
     heap[getHoneySettings(users).tokens[k]].address]

\* the tokens of the user's list, in the order of the list
TokenSeq ==
  [k \in 1..Len(getHoneySettings(users).tokens) |->
     heap[getHoneySettings(users).tokens[k]]]

InList(address) == \E k \in 1..Len(AddressSeq) : AddressSeq[k] = address

\* this step is a call of addHoneyToken / of removeHoneyToken
AddCalled == ops' = ops + 1 /\ api'.fn = "addHoneyToken"
RemoveCalled == ops' = ops + 1 /\ api'.fn = "removeHoneyToken"

\* C5: after any sequence of add, remove and reset from no settings the list
\* holds at most 10 tokens and no two of them share an address; an add on a
\* list of 10 tokens fails with the capacity error and leaves the list
\* unchanged.
C5_TokenListBound ==
  /\ [] ( /\ Len(AddressSeq) <= 10
          /\ \A j, k \in 1..Len(AddressSeq) : j # k => AddressSeq[j] # AddressSeq[k] )
  /\ [][ (AddCalled /\ Len(AddressSeq) = 10) =>
           /\ api'.error = ErrCapacity
           /\ TokenSeq' = TokenSeq ]_vars

\* C5 witness: an eleventh address was refused on a list of 10 tokens
C5_Witness ==
  /\ api.fn = "addHoneyToken"
  /\ api.error = ErrCapacity
  /\ Len(AddressSeq) = 10
  /\ ~InList(api.arg)

\* C6 as stated: an add of an address that is in the list fails with the
\* duplicate error in every state of the list, a list of 10 tokens included,
\* and leaves the list unchanged.
C6_DuplicateInEveryState ==
  [][ (AddCalled /\ InList(api'.arg)) =>
        /\ api'.error = ErrDuplicate
        /\ TokenSeq' = TokenSeq ]_vars

\* C6 amended: an add of an address that is in the list leaves the list
\* unchanged and fails, with the duplicate error when the list holds fewer
\* than 10 tokens and with the capacity error when it holds 10.
C6_DuplicateBelowCapacity ==
  [][ (AddCalled /\ InList(api'.arg)) =>
        /\ api'.error = (IF Len(AddressSeq) < 10 THEN ErrDuplicate ELSE ErrCapacity)
        /\ TokenSeq' = TokenSeq ]_vars

\* C6 witness: the address of the last of 9 tokens was added again and refused
\* as a duplicate
C6_Witness ==
  /\ api.fn = "addHoneyToken"
  /\ api.error = ErrDuplicate
  /\ Len(AddressSeq) = 9
  /\ AddressSeq[9] = api.arg

\* s without its k-th element
Without(s, k) == SubSeq(s, 1, k - 1) \o SubSeq(s, k + 1, Len(s))

\* C7: removeHoneyToken raises no error; for an address that is not in the
\* list it leaves the tokens, their order and repeatOnEntry unchanged; for an
\* address in the list it deletes exactly that token and keeps the order of
\* the others; removing the address once more changes nothing.
C7_RemoveIdempotent ==
  [][ RemoveCalled =>
        /\ api'.error = NoError
        /\ getHoneySettings(users').repeatOnEntry = getHoneySettings(users).repeatOnEntry
        /\ ~InList(api'.arg) => TokenSeq' = TokenSeq
        /\ InList(api'.arg) =>
             \E k \in 1..Len(TokenSeq) :
               /\ AddressSeq[k] = api'.arg
               /\ TokenSeq' = Without(TokenSeq, k)
        /\ RemoveResult(users', heap', api'.arg) = users' ]_vars

\* C7 witness: the second of three tokens was removed and the other two kept
\* their order
C7_Witness ==
  /\ api = Api("removeHoneyToken", 2, NoError)
  /\ AddressSeq = << 1, 3 >>


(***************************************************************************)
(* Properties of the sent-token ledger (checked under SpecLedger).         *)
(***************************************************************************)
\* this step runs the body of p's appendSentHash / readSentHashes
AppendRuns(p) ==
  procs[p].pc = "settle" /\ procs[p].op = "append" /\ procs'[p].pc # "settle"
ReadRuns(p) ==
  procs[p].pc = "settle" /\ procs[p].op = "read" /\ procs'[p].pc # "settle"

\* the digests the persisted ledger holds
Digests(f) == { f.arr[k].hash : k \in 1..Len(f.arr) }

\* the persisted records younger than 24 hours at time t, and their digests
Unexpired(t) == SelectSeq(file.arr, LAMBDA r : t - r.ts < 86400000)
UnexpiredDigests(t) ==
  LET u == Unexpired(t) IN { u[k].hash : k \in 1..Len(u) }

\* C9 as stated: an append of a digest that an earlier, completed append
\* already appended leaves the ledger's set of digests and its record count
\* unchanged.
C9_SecondAppendNoOp ==
  [][ \A p, q \in Procs :
        ( /\ p # q
          /\ AppendRuns(p)
          /\ procs[q].pc = "done"
          /\ procs[q].op = "append"
          /\ procs[q].hash = procs[p].hash )
        => /\ Digests(file') = Digests(file)
           /\ Len(file'.arr) = Len(file.arr) ]_vars

\* C9 amended: an append of a digest that the persisted ledger holds in an
\* unexpired record leaves the ledger unchanged and returns without writing.
C9_FreshDuplicateNoOp ==
  [][ \A p \in Procs :
        (AppendRuns(p) /\ procs[p].hash \in UnexpiredDigests(now))
        => /\ file' = file
           /\ procs'[p].pc = "done"
           /\ procs'[p].retry = 0 ]_vars

\* C9 witness: an append returned as a duplicate of the older of two records
C9_Witness ==
  \E p \in Procs :
    /\ procs[p].pc = "done"
    /\ procs[p].op = "append"
    /\ procs[p].outcome = "duplicate"
    /\ Len(file.arr) = 2
    /\ file.arr[1].hash = procs[p].hash
    /\ file.arr[2].hash # procs[p].hash

\* readSentHashes returns exactly the digests of the unexpired records
ReadResultExact ==
  /\ [][ \A p \in Procs : ReadRuns(p) => procs'[p].result = UnexpiredDigests(now) ]_vars
  /\ [][ \A p \in Procs :
           (procs[p].op = "read" /\ procs[p].pc = "sleep" /\ procs'[p].pc = "done")
           => procs'[p].result = procs[p].result ]_vars
  /\ [][ \A p \in Procs : ReadRuns(p) =>
           \A k \in 1..Len(file.arr) :
             /\ now - file.arr[k].ts >= 86400000 => file.arr[k].hash \notin procs'[p].result
             /\ now - file.arr[k].ts = 86399999 => file.arr[k].hash \in procs'[p].result ]_vars

\* a read that discarded records does not release the lock while it is
\* still to write: its steps into the backoff leave the lock as it is
LockHeldUntilWritten ==
  [][ \A p \in Procs :
        (procs[p].op = "read" /\ procs'[p] # procs[p] /\ procs'[p].pc = "sleep")
        => lock' = lock ]_vars

\* C10 as stated: readSentHashes returns exactly the digests of the records
\* with now - ts < 86,400,000; a record with now - ts >= 86,400,000 is absent
\* and one with now - ts = 86,399,999 present; when a record was discarded
\* the pruned list is written back before the lock is released.
C10_PrunedAlwaysWritten ==
  /\ ReadResultExact
  /\ LockHeldUntilWritten
  /\ [][ \A p \in Procs :
           (ReadRuns(p) /\ procs'[p].pc = "done" /\ Len(Unexpired(now)) # Len(file.arr))
           => file' = ArrayFile(Unexpired(now)) /\ lock' = Unlocked ]_vars
  /\ [][ \A p \in Procs :
           (procs[p].op = "read" /\ procs[p].pc = "sleep" /\ procs'[p].pc = "done")
           => file' = ArrayFile(procs[p].toWrite) /\ lock' = Unlocked ]_vars

\* C10 amended: as C10, but the pruned list is written back unless all three
\* write attempts fail; then the read still returns the unexpired digests
\* and the persisted ledger is left as it was.
C10_PrunedWrittenUnlessWritesFail ==
  /\ ReadResultExact
  /\ LockHeldUntilWritten
  /\ [][ \A p \in Procs :
           (ReadRuns(p) /\ procs'[p].pc = "done" /\ Len(Unexpired(now)) # Len(file.arr))
           => file' = ArrayFile(Unexpired(now)) /\ lock' = Unlocked ]_vars
  /\ [][ \A p \in Procs :
           (procs[p].op = "read" /\ procs[p].pc = "sleep" /\ procs'[p].pc = "done")
           => /\ lock' = Unlocked
              /\ IF procs[p].retry < 3
                 THEN file' = ArrayFile(procs[p].toWrite)
                 ELSE file' = file ]_vars

\* C10 witness: a read found a record aged exactly 24 hours and one a
\* millisecond younger, returned the digest of the younger one only and
\* wrote the ledger back without the older one
C10_Witness ==
  \E p \in Procs :
    /\ procs[p].pc = "done"
    /\ procs[p].op = "read"
    /\ procs[p].outcome = "pruned"
    /\ Len(file.arr) = 1
    /\ now - file.arr[1].ts = 86399999
    /\ procs[p].result = { file.arr[1].hash }
    /\ now = 86400000


\* C11: when the count after adding the new record is 3000 or more, the 10
\* oldest records are dropped on that append; if the count is then still
\* above 6000, the 6000 most recent records are kept; the new record is
\* always the last one of what is written.
C11_CapacityTrim ==
  [][ \A p \in Procs :
        ( /\ AppendRuns(p)
          /\ file.kind # "garbage"
          /\ procs[p].hash \notin UnexpiredDigests(now) )
        => LET new == [hash |-> procs[p].hash, ts |-> now]
               a == Append(Unexpired(now), new)
               n == Len(a)
               w == IF procs'[p].pc = "done" THEN file'.arr ELSE procs'[p].toWrite
           IN  /\ n < 3000 => w = a
               /\ (n >= 3000 /\ n - 10 <= 6000) => w = SubSeq(a, 11, n)
               /\ n - 10 > 6000 => w = SubSeq(a, n - 5999, n)
               /\ w[Len(w)] = new ]_vars

\* C11 witness: an append to a ledger of 2999 records left 2990 records, the
\* 10 oldest gone and the new one last
C11_Witness ==
  /\ procs[1].pc = "done"
  /\ procs[1].outcome = "appended"
  /\ procs[1].retry = 0
  /\ Len(file.arr) = 2990
  /\ file.arr[1].hash = 13
  /\ file.arr[2990] = [hash |-> procs[1].hash, ts |-> 0]


(***************************************************************************)
(* Properties of the lock (checked under SpecLock).                        *)
(***************************************************************************)
\* caller p is waiting for the lock
Acquiring(p) == procs[p].pc \in {"lock", "write", "retry"}

\* caller p has written the marker and not yet removed it
Holds(p) == procs[p].pc \in {"settle", "sleep"}

\* C12: a caller that waits for the lock eventually acquires it, also when
\* the marker was left behind by a holder that never releases it: a caller
\* that finds the marker older than 2 seconds removes it (and a younger one
\* it leaves alone).
C12_CrashLockRecovery ==
  /\ \A p \in Procs : Acquiring(p) ~> Holds(p)
  /\ [][ \A p \in Procs :
           (procs[p].pc = "lock" /\ procs'[p].pc = "retry")
           => lock' = (IF now - lock > 2000 THEN Undefined ELSE lock) ]_vars

\* C12 witness: the only operation started so far acquired the lock although
\* a marker had been left behind: it holds a marker written more than 2
\* seconds after the start
C12_Witness ==
  \E p \in Procs :
    /\ ops = 1
    /\ procs[p].pc = "settle"
    /\ lock = now
    /\ now > 2000

\* C15: two ledger operations never hold the lock at the same time, and two
\* appends of different digests that both completed with a successful write
\* leave both digests in the ledger.
C15_MutualExclusion ==
  /\ [] ( \A p, q \in Procs : p # q => ~(Holds(p) /\ Holds(q)) )
  /\ [] ( \A p, q \in Procs :
            ( /\ p # q
              /\ procs[p].pc = "done" /\ procs[p].op = "append"
              /\ procs[p].outcome = "appended"
              /\ procs[q].pc = "done" /\ procs[q].op = "append"
              /\ procs[q].outcome = "appended"
              /\ procs[p].hash # procs[q].hash )
            => {procs[p].hash, procs[q].hash} \subseteq Digests(file) )


(***************************************************************************)
(* Further properties of the ledger (checked under SpecLedger).            *)
(***************************************************************************)
\* the persisted content is not a record sequence
Malformed == file.kind \in {"garbage", "notArray"}

\* C13: on malformed content readSentHashes returns the empty set, and an
\* appendSentHash that completes leaves a ledger that holds the appended
\* digest; neither raises.
C13_MalformedAsEmpty ==
  /\ [][ \A p \in Procs :
           (ReadRuns(p) /\ Malformed)
           => procs'[p].pc = "done" /\ procs'[p].result = {} ]_vars
  /\ [][ \A p \in Procs :
           (AppendRuns(p) /\ Malformed /\ procs'[p].pc = "done")
           => file'.kind = "array" /\ procs[p].hash \in Digests(file') ]_vars

\* C14: an operation attempts its write at most 3 times; when all 3 attempts
\* have failed it returns all the same, the persisted content is left as it
\* was, and a read returns the digests it had computed: the unexpired ones.
C14_WriteResilience ==
  /\ [] ( \A p \in Procs : procs[p].retry <= 3 )
  /\ [][ file' # file =>
           \E p \in Procs :
             procs'[p] # procs[p] /\ procs[p].retry < 3 /\ procs'[p].pc = "done" ]_vars
  /\ [][ \A p \in Procs :
           (procs[p].pc = "sleep" /\ procs[p].retry = 3 /\ procs'[p] # procs[p])
           => /\ procs'[p].pc = "done"
              /\ file' = file
              /\ procs'[p].result = procs[p].result ]_vars
  /\ [][ \A p \in Procs :
           (ReadRuns(p) /\ procs'[p].pc = "sleep")
           => procs'[p].result = UnexpiredDigests(now) /\ file' = file ]_vars

\* C14 witness: a read returned the one unexpired digest after 3 failed
\* writes, and the ledger still holds the expired record as well
C14_Witness ==
  \E p \in Procs :
    /\ procs[p].pc = "done"
    /\ procs[p].op = "read"
    /\ procs[p].retry = 3
    /\ Cardinality(procs[p].result) = 1
    /\ Len(file.arr) = 2
    /\ procs[p].result \subseteq Digests(file)

\* C20: no two records of the ledger carry the same hash, and an append of a
\* digest that is present and unexpired writes nothing: the record keeps its
\* timestamp, so later sightings do not put off its expiry.
C20_RecordsImmutableUnique ==
  /\ [] ( \A j, k \in 1..Len(file.arr) : j # k => file.arr[j].hash # file.arr[k].hash )
  /\ [][ \A p \in Procs :
           ( /\ AppendRuns(p)
             /\ \E k \in 1..Len(file.arr) :
                  file.arr[k].hash = procs[p].hash /\ now - file.arr[k].ts < 86400000 )
           => /\ Len(file'.arr) = Len(file.arr)
              /\ \A k \in 1..Len(file.arr) : file'.arr[k] = file.arr[k] ]_vars

\* C20 witness: a digest was sighted again after its record was written, and
\* the one record still carries the time of the first sighting
C20_Witness ==
  \E p \in Procs :
    /\ procs[p].pc = "done"
    /\ procs[p].op = "append"
    /\ procs[p].outcome = "duplicate"
    /\ Len(file.arr) = 1
    /\ file.arr[1].hash = procs[p].hash
    /\ file.arr[1].ts < now


(***************************************************************************)
(* Properties of a pass over several tokens (checked under SpecOrder).     *)
(***************************************************************************)
\* the position in the pass's list of the token with this address
Pos(address) ==
  CHOOSE k \in 1..Len(settings.tokens) : heap[settings.tokens[k]].address = address

\* this step is a step of the pass (the handlers leave pc, idx and stage)
PassStep == << pc, idx, stage >>' # << pc, idx, stage >>

\* this step issues an external call
CallIssued == Len(calls') = Len(calls) + 1

\* C16: within a pass the external calls are issued for the tokens in their
\* order in the list and one at a time: a call is issued only for the token
\* the pass is at and when every earlier call has settled, the pass never
\* goes back to an earlier token, and it writes the settings once, when it
\* is past the last token.
C16_PassOrder ==
  /\ [] ( \A i, j \in 1..Len(calls) :
            i < j => Pos(calls[i].address) <= Pos(calls[j].address) )
  /\ [][ CallIssued =>
           /\ calls'[Len(calls')].address = heap[settings.tokens[idx]].address
           /\ \A k \in 1..Len(calls) : calls'[k].result # "pending" ]_vars
  /\ [][ (PassStep /\ pc # "idle" /\ pc' # "idle") =>
           /\ idx' \in {idx, idx + 1}
           /\ idx' = idx + 1 => \A k \in 1..Len(calls') : calls'[k].result # "pending"
           /\ users' = users ]_vars
  /\ [][ PassCompletes =>
           /\ idx > Len(settings.tokens)
           /\ getHoneySettings(users').tokens = settings.tokens
           /\ getHoneySettings(users').repeatOnEntry = settings.repeatOnEntry ]_vars

\* C16 witness: the token at position 1 was looked up and bought, and the
\* lookup for the token at position 2 is in flight
C16_Witness ==
  /\ Len(calls) = 3
  /\ calls[1].fn = "getPrice" /\ calls[1].result = "ok"
  /\ calls[2].fn = "autoBuy" /\ calls[2].result = "ok"
  /\ calls[3].fn = "getPrice" /\ calls[3].result = "pending"
  /\ Pos(calls[2].address) = 1
  /\ Pos(calls[3].address) = 2
  /\ idx = 2

\* C17: when getPrice rejects for a token, the token's status becomes
\* 'error' and nothing else of it changes, no autoBuy or autoSell is called
\* for it in that pass, and the pass goes on with the next token: it ends
\* only past the last token, and it looks up the price of every valid,
\* unfinished token it comes to.
C17_PriceFailure ==
  /\ [][ (pc = "getPrice" /\ pc' # "getPrice"
          /\ getPrice[heap[settings.tokens[idx]].address] = -2)
         => /\ heap' = [heap EXCEPT ![settings.tokens[idx]].status = "error"]
            /\ calls'[Len(calls')].result = "failed"
            /\ Len(calls') = Len(calls)
            /\ pc' = "loop"
            /\ idx' = idx + 1 ]_vars
  /\ [] ( \A i, j \in 1..Len(calls) :
            (calls[i].fn = "getPrice" /\ calls[i].result = "failed")
            => ~(calls[j].address = calls[i].address /\ calls[j].fn \in {"autoBuy", "autoSell"}) )
  /\ [][ PassCompletes => idx > Len(settings.tokens) ]_vars
  /\ [][ (pc = "loop" /\ PassStep /\ idx <= Len(settings.tokens)
          /\ ~heap[settings.tokens[idx]].finished
          /\ Len(heap[settings.tokens[idx]].profitPercents) > 0)
         => /\ pc' = "getPrice"
            /\ calls'[Len(calls')] =
                 [fn |-> "getPrice", address |-> heap[settings.tokens[idx]].address,
                  amount100 |-> 0, stage |-> 0, result |-> "pending"] ]_vars

\* C17 witness: the lookup failed for a token that had been bought, which
\* kept its entry price and its stage, and the next token is being looked up
C17_Witness ==
  /\ Len(calls) = 2
  /\ calls[1].fn = "getPrice" /\ calls[1].result = "failed"
  /\ calls[2].fn = "getPrice" /\ calls[2].address # calls[1].address
  /\ idx = 2
  /\ heap[settings.tokens[1]].status = "error"
  /\ heap[settings.tokens[1]].lastEntryPrice = 100
  /\ heap[settings.tokens[1]].currentStage = 1


(***************************************************************************)
(* Further properties of the trading engine (checked under Spec).          *)
(***************************************************************************)
\* the token the pass is at
Tok == heap[settings.tokens[idx]]

\* this step issues an autoBuy call
BuyIssued == CallIssued /\ calls'[Len(calls')].fn = "autoBuy"

\* C18: for a token without an entry price whose price lookup succeeded,
\* autoBuy is called, with the token's buyAmount, and only then; at most
\* once per token in a pass.  When it resolves, entryPrice is the looked-up
\* price, status 'active', currentStage 0 and lastTxId recorded; when it
\* rejects, status is 'error' and nothing else changes, so that the entry
\* price stays unset and the next pass buys again.  Either way the pass goes
\* to the next token: no sell is attempted for this one in the pass.
C18_EntryStep ==
  /\ [][ (pc = "getPrice" /\ pc' # "getPrice") =>
           ( BuyIssued <=>
               (getPrice[Tok.address] # -2 /\ Tok.lastEntryPrice = -1) ) ]_vars
  /\ [][ BuyIssued =>
           /\ pc = "getPrice"
           /\ calls'[Len(calls')].address = Tok.address
           /\ calls'[Len(calls')].amount100 = 100 * Tok.buyAmount ]_vars
  /\ [] ( \A i, j \in 1..Len(calls) :
            (calls[i].fn = "autoBuy" /\ calls[j].address = calls[i].address /\ i # j)
            => (calls[j].fn = "getPrice" /\ j < i) )
  /\ [][ (pc = "autoBuy" /\ pc' # "autoBuy") =>
           /\ pc' = "loop"
           /\ idx' = idx + 1
           /\ calls'[Len(calls')].result \in {"ok", "failed"}
           /\ calls'[Len(calls')].result = "ok" =>
                heap' = [heap EXCEPT ![settings.tokens[idx]] =
                           [Tok EXCEPT !.lastEntryPrice = currentPrice,
                                       !.status = "active",
                                       !.currentStage = 0,
                                       !.lastTxId = "buyTx"]]
           /\ calls'[Len(calls')].result = "failed" =>
                heap' = [heap EXCEPT ![settings.tokens[idx]].status = "error"] ]_vars

\* C18 witness: the buy of an earlier pass failed (status 'error', no entry
\* price), and this pass has called autoBuy for the token again
C18_Witness ==
  /\ pc = "autoBuy"
  /\ Tok.status = "error"
  /\ Tok.lastEntryPrice = -1
  /\ Tok.currentStage = -1
  /\ calls[Len(calls)].fn = "autoBuy"
  /\ calls[Len(calls)].result = "pending"

\* the tokens of the settings a pass has just written
Written == { heap'[o] : o \in Range(getHoneySettings(users').tokens) }

\* C19 as stated: after every pass, for every token, entryPrice is defined
\* whenever currentStage > 0 or status is 'active' or 'sold', and
\* currentStage lies in [0, profitPercents.length].
C19_TokenInvariant ==
  [][ PassCompletes =>
        \A t \in Written :
          /\ (t.currentStage > 0 \/ t.status \in {"active", "sold"})
               => t.lastEntryPrice # -1
          /\ t.currentStage \in 0..Len(t.profitPercents) ]_vars

\* C19 amended: after every pass, for every token, entryPrice is defined
\* whenever currentStage > 0 or status is 'active' or 'sold'; currentStage
\* is unset or lies in [0, profitPercents.length], and it is set whenever
\* entryPrice is.
C19_TokenInvariantStageMayBeUnset ==
  [][ PassCompletes =>
        \A t \in Written :
          /\ (t.currentStage > 0 \/ t.status \in {"active", "sold"})
               => t.lastEntryPrice # -1
          /\ t.currentStage = -1 \/ t.currentStage \in 0..Len(t.profitPercents)
          /\ t.lastEntryPrice # -1 => t.currentStage \in 0..Len(t.profitPercents) ]_vars

\* C19 witness: a pass is over in which the price lookup failed for a token
\* that was never bought: its currentStage is still unset
C19_Witness ==
  /\ pc = "idle"
  /\ api.fn = "executeHoneyStrategy"
  /\ \E o \in Range(getHoneySettings(users).tokens) :
       /\ heap[o].status = "error"
       /\ heap[o].currentStage = -1
       /\ Len(heap[o].profitPercents) > 0


(***************************************************************************)
(* Release of the lock (checked under SpecLedger).                         *)
(***************************************************************************)
\* p is past lockFile and has not returned
InBody(p) == procs[p].pc \in {"settle", "sleep"}

\* C21: when readSentHashes or appendSentHash returns, on any of its paths
\* (appended, duplicate, pruned or clean read, unreadable content, all write
\* attempts failed), no lock marker is left; a marker exists only while some
\* operation is between lockFile and its return, so that an operation
\* that finds no other in that span finds no marker either, and only a
\* marker of an operation still in that span is ever waited out as stale.
C21_LockReleased ==
  /\ [][ \A p \in Procs :
           (InBody(p) /\ procs'[p].pc = "done")
           => /\ lock' = -1
              /\ procs'[p].outcome \in {"appended", "duplicate", "pruned", "clean",
                                        "unreadable", "unwritten"} ]_vars
  /\ [][ \A p \in Procs :
           (InBody(p) /\ procs'[p] # procs[p]) => procs'[p].pc \in {"done", "sleep"} ]_vars
  /\ [] ( lock # -1 => \E p \in Procs : InBody(p) )
  /\ [][ \A p \in Procs :
           (procs[p].pc = "lock" /\ procs'[p].pc = "settle" /\ lock # -1)
           => \E q \in Procs : InBody(q) ]_vars

\* C21 witness: an append gave up after its write attempts failed, and the
\* other caller, started after it, holds the lock with no time having passed
C21_Witness ==
  \E p, q \in Procs :
    /\ procs[p].pc = "done"
    /\ procs[p].outcome = "unwritten"
    /\ procs[q].pc = "settle"
    /\ lock = now
    /\ ticks = 0


(***************************************************************************)
(* Sells within one pass (checked under Spec).                             *)
(***************************************************************************)
\* the autoSell of this step resolved
SellSucceeds == pc = "autoSell" /\ pc' # "autoSell" /\ calls'[Len(calls')].result = "ok"

\* C22: within a pass, a successful autoSell for a token sets lastSellPrice
\* to the pass's price and currentStage to the stage after the one sold,
\* and no autoSell is called for that token afterwards in the pass, even
\* when the price reaches the targets of later stages: a token has at most
\* one successful sell per pass.
C22_OneSellPerPass ==
  /\ [][ SellSucceeds =>
           /\ heap'[settings.tokens[idx]].lastSellPrice = currentPrice
           /\ heap'[settings.tokens[idx]].currentStage = stage + 1 ]_vars
  /\ [] ( \A i, j \in 1..Len(calls) :
            ( /\ i < j
              /\ calls[i].fn = "autoSell"
              /\ calls[i].result = "ok"
              /\ calls[j].address = calls[i].address )
            => calls[j].fn = "getPrice" )
  /\ [][ (\E k \in 1..Len(calls) :
             /\ calls[k].fn = "autoSell"
             /\ calls[k].result = "ok"
             /\ pc \in {"stages", "autoSell", "repeat"}
             /\ calls[k].address = Tok.address)
         => /\ ~SellIssued
            /\ pc' # "loop" =>
                 heap'[settings.tokens[idx]].currentStage = Tok.currentStage ]_vars

\* C22 witness: stage 0 was sold in this pass at a price that reaches the
\* target of stage 1 as well; the stage loop is over and the token is at
\* stage 1 with the one sell in the log
C22_Witness ==
  /\ pc = "repeat"
  /\ Tok.currentStage = 1
  /\ Len(Tok.profitPercents) = 2
  /\ Tok.lastSellPrice = currentPrice
  /\ currentPrice * 100 >= Tok.lastEntryPrice * (100 + Tok.profitPercents[2])
  /\ calls[Len(calls)].fn = "autoSell"
  /\ calls[Len(calls)].result = "ok"
  /\ calls[Len(calls)].stage = 0


(***************************************************************************)
(* Settings changed during a pass (checked under Spec).                    *)
(***************************************************************************)
\* removeHoneyToken was the last handler to run, and it ran during the pass
\* in flight
RemovedInPass == pc # "idle" /\ api.fn = "removeHoneyToken"

\* C23: a removeHoneyToken that runs while a pass is suspended at an external
\* call is not undone by the pass: when the pass has written the settings
\* back, the removed address is not in the user's token list, and the pass
\* calls neither autoBuy nor autoSell for it after the removal.
C23_RemoveSurvivesPass ==
  /\ [][ (RemovedInPass /\ PassCompletes) =>
           \A o \in Range(getHoneySettings(users').tokens) :
             heap'[o].address # api.arg ]_vars
  /\ [][ (RemovedInPass /\ CallIssued /\ calls'[Len(calls')].fn \in {"autoBuy", "autoSell"})
         => calls'[Len(calls')].address # api.arg ]_vars

=============================================================================
